---- MODULE Spec2Model ----
(***************************************************************************)
(* A model of the MCP client front end: the tool-server registry and its   *)
(* connected set (MCPTools, js/mcp-tools.js), the backend API wrapper      *)
(* (MCPClientAPI, js/api.js) and the chat turn engine (MCPClientApp,       *)
(* js/providers.js).                                                       *)
(*                                                                         *)
(* JavaScript runs one handler at a time and a handler is suspended only   *)
(* at an await.  Every action below is one run of a handler from its start *)
(* (or from the await it resumes at) to its next await or its return.  A   *)
(* request in flight carries the continuation that will resume on its      *)
(* response.                                                               *)
(*                                                                         *)
(* Strings the code splits, concatenates or tests for emptiness are        *)
(* sequences of tokens: "" is <<>>, concatenation is \o, and "_" is a      *)
(* token of its own.                                                       *)
(***************************************************************************)
EXTENDS Integers, Sequences, FiniteSets, TLC

VARIABLES
    config,            \* MCPTools.config: NoConfig (null) or [mcpServers |-> ...]
    savedConfig,       \* localStorage 'mcp_client_config'
    connectedServers,  \* MCPTools.connectedServers
    toolsList,         \* the server sections last rendered into #tools-list
    activeTools,       \* MCPTools.activeTools: the registered panels, by toolId
    panels,            \* the .tool-interface elements of #active-tools, in order
    pending,           \* backend requests in flight, each with its continuation
    chatHistory,       \* MCPClientApp.chatHistory
    savedHistory,      \* localStorage 'mcp_client_chat_history'
    isProcessing,      \* MCPClientApp.isProcessing
    sendDisabled,      \* #send-message .disabled
    notification,      \* the last showNotification: <<message, type>>
    aiResult,          \* the answer of mcp/ai_process last handed to processAiWithToolsResponse
    processed,         \* what processAiWithToolsResponse made of it
    now,               \* Date.now(), advanced by the Tick action
    lastOp             \* the handler run by the last step, with its inputs

vars == <<config, savedConfig, connectedServers, toolsList, activeTools, panels, pending,
          chatHistory, savedHistory, isProcessing, sendDisabled, aiResult, processed,
          notification, now, lastOp>>

registryVars == <<config, savedConfig, connectedServers, toolsList>>
panelVars == <<activeTools, panels>>
chatVars == <<chatHistory, savedHistory, isProcessing, sendDisabled, aiResult, processed>>

(***************************************************************************)
(* Bounds of the model.                                                    *)
(***************************************************************************)
MaxServers == 2     \* entries of mcpServers in a configuration file
MaxPending == 2     \* backend requests in flight at once
MaxPanels == 1      \* tool panels open at once
MaxHistory == 4     \* entries of the chat transcript
MaxSteps == 3       \* steps of one orchestration response
MaxTime == 1        \* the last value of the clock
MaxIdLen == 3       \* tokens of a tool identifier

\* this.config = null
NoConfig == [null |-> TRUE]

\* Server names a configuration file may declare.  "0" is a name that is a
\* canonical array index, which JavaScript enumerates before the other keys.
ServerNames == {"fs", "0"}
\* The server executeCommand addresses.
TerminalServer == "terminal-controller"
\* Names the backend may report from connect-all: it keeps its own configuration.
BackendNames == ServerNames \cup {TerminalServer}
ToolNames == {"list_dir"}

\* The first tool of every declared server; a server may also declare no tool.
ToolLists == {<<"list_dir">>}

(***************************************************************************)
(* Helpers on sequences.                                                   *)
(***************************************************************************)
SeqUpTo(S, n) == UNION {[1..k -> S] : k \in 0..n}

Range(s) == {s[i] : i \in DOMAIN s}

RECURSIVE RemoveAt(_, _)
RemoveAt(s, i) ==
    IF i = 1 THEN Tail(s) ELSE <<Head(s)>> \o RemoveAt(Tail(s), i - 1)

(***************************************************************************)
(* Configuration files and JSON.parse.                                     *)
(*                                                                         *)
(* A file is the text the user picks.  kind says what JSON.parse makes of  *)
(* it and what its mcpServers property is; servers are the members of      *)
(* mcpServers in the order the text declares them (an object may repeat a  *)
(* key; the elements of an array have the keys "0", "1", ...).             *)
(***************************************************************************)
ServerDecl == [name : ServerNames, disabled : BOOLEAN, tools : ToolLists]

ObjectFiles == {[kind |-> "object", servers |-> d] : d \in SeqUpTo(ServerDecl, MaxServers)}

\* An array of at most one element: its only key is "0".
ArrayFiles ==
    {[kind |-> "array", servers |-> d] :
        d \in SeqUpTo([name : {"0"}, disabled : BOOLEAN, tools : ToolLists], 1)}

OtherFiles ==
    {[kind |-> k, servers |-> <<>>] :
        k \in {"badJson", "null", "noServers", "serversNull", "serversString"}}

ConfigFiles == ObjectFiles \cup ArrayFiles \cup OtherFiles

\* A property name that is a canonical array index, and its value.
IsArrayIndex(n) == n \in {"0"}
IndexValue(n) == IF n = "0" THEN 0 ELSE -1

\* The names of decl, each once, in the order of their first declaration.
RECURSIVE FirstOccurrences(_)
FirstOccurrences(decl) ==
    IF decl = <<>> THEN <<>>
    ELSE LET front == FirstOccurrences(SubSeq(decl, 1, Len(decl) - 1))
             n == decl[Len(decl)].name
         IN  IF n \in Range(front) THEN front ELSE Append(front, n)

\* Array-index names in ascending numeric order (insertion into a sorted list).
RECURSIVE SortIndexNames(_)
SortIndexNames(names) ==
    IF names = <<>> THEN <<>>
    ELSE LET rest == SortIndexNames(Tail(names))
             n == Head(names)
             lower == SelectSeq(rest, LAMBDA m : IndexValue(m) < IndexValue(n))
             upper == SelectSeq(rest, LAMBDA m : IndexValue(m) >= IndexValue(n))
         IN  lower \o <<n>> \o upper

\* The value JSON.parse keeps for a repeated key: the last one declared.
LastDeclared(decl, n) ==
    LET i == CHOOSE j \in DOMAIN decl :
                 /\ decl[j].name = n
                 /\ \A k \in DOMAIN decl : decl[k].name = n => k <= j
    IN  decl[i]

\* The own properties of the object JSON.parse builds from decl, in the order
\* Object.entries / Object.keys enumerate them: array-index keys first, in
\* ascending numeric order, then the other keys in insertion order.
ObjectEntries(decl) ==
    LET names == FirstOccurrences(decl)
        order == SortIndexNames(SelectSeq(names, IsArrayIndex))
                     \o SelectSeq(names, LAMBDA n : ~IsArrayIndex(n))
    IN  [i \in DOMAIN order |-> LastDeclared(decl, order[i])]

\* JSON.parse(text): [throws |-> TRUE] on a syntax error, NoConfig for the text
\* null, or the parsed object.  mcpServers is [type, entries]: what typeof and
\* truthiness see of it, and its enumerated entries.
JSONparse(file) ==
    CASE file.kind = "badJson" -> [throws |-> TRUE]
      [] file.kind = "null" -> NoConfig
      [] file.kind = "noServers" -> [mcpServers |-> [type |-> "undefined", entries |-> <<>>]]
      [] file.kind = "serversNull" -> [mcpServers |-> [type |-> "null", entries |-> <<>>]]
      [] file.kind = "serversString" -> [mcpServers |-> [type |-> "string", entries |-> <<>>]]
      [] file.kind = "array" -> [mcpServers |-> [type |-> "array", entries |-> file.servers]]
      [] OTHER -> [mcpServers |-> [type |-> "object", entries |-> ObjectEntries(file.servers)]]

\* JavaScript's truthiness and typeof of an mcpServers value (typeof [] and
\* typeof null are both 'object'; null and undefined are falsy, and the string
\* of a "serversString" file is a non-empty one).
Truthy(v) == v.type \notin {"undefined", "null"}
TypeOfIsObject(v) == v.type \in {"object", "array", "null"}

validateConfig(cfg) ==
    IF cfg = NoConfig \/ ~Truthy(cfg.mcpServers) \/ ~TypeOfIsObject(cfg.mcpServers)
    THEN FALSE
    ELSE Len(cfg.mcpServers.entries) > 0

(***************************************************************************)
(* The registry: MCPTools.config, the connected set and the rendering.     *)
(***************************************************************************)
Entries(cfg) == IF cfg = NoConfig THEN <<>> ELSE cfg.mcpServers.entries

\* this.config.mcpServers[serverName] is defined
HasServer(cfg, s) == \E i \in DOMAIN Entries(cfg) : Entries(cfg)[i].name = s

ServerConfig(cfg, s) ==
    Entries(cfg)[CHOOSE i \in DOMAIN Entries(cfg) : Entries(cfg)[i].name = s]

\* window.mcpApi is set when js/api.js loads, before MCPTools.init reads it.
hasApiAccess == TRUE

\* renderToolsList: one section per entry of config.mcpServers, with the
\* connection and disabled status its buttons capture.
Rendering(cfg, connected) ==
    [i \in DOMAIN Entries(cfg) |->
        [server |-> Entries(cfg)[i].name,
         isConnected |-> Entries(cfg)[i].name \in connected,
         isDisabled |-> Entries(cfg)[i].disabled]]

renderToolsList(cfg, connected, dom) ==
    IF cfg = NoConfig THEN dom ELSE Rendering(cfg, connected)

(***************************************************************************)
(* Backend requests in flight (MCPClientAPI.request).  id tells two equal  *)
(* requests apart; cont is the handler that resumes on the response.  The  *)
(* startup fetch of mcp-config.json has id 0 and is outside MaxPending.    *)
(***************************************************************************)
Req(id, kind, server, tool, cont, time, value) ==
    [id |-> id, kind |-> kind, server |-> server, tool |-> tool, cont |-> cont,
     time |-> time, value |-> value]

FreeIds == (1..MaxPending) \ {r.id : r \in pending}
CanSend == FreeIds # {}
FreshId == CHOOSE i \in FreeIds : \A j \in FreeIds : i <= j

\* The requests of a kind a step has issued.
Issued(kind) == {r \in pending' \ pending : r.kind = kind}

\* MCPClientApp.showNotification(message, type).  MCPTools notifies through
\* window.app, which js/app.js assigns: those notifications are not modelled.
Notice(msg, type) == [msg |-> msg, type |-> type]
NoNotice == Notice("", "")

Op(name, arg) == [op |-> name, arg |-> arg]

\* No answer of mcp/ai_process has been processed.
NoResult == [none |-> TRUE]

\* A configuration a previous visit may have left in localStorage.
SavedConfigs ==
    {NoConfig,
     JSONparse([kind |-> "object",
                servers |-> <<[name |-> "fs", disabled |-> FALSE, tools |-> <<"list_dir">>]>>])}

Init ==
    /\ config = NoConfig
    /\ savedConfig \in SavedConfigs
    /\ connectedServers = {}
    /\ toolsList = <<>>
    /\ activeTools = {}
    /\ panels = <<>>
    /\ pending = {Req(0, "fetchConfig", "", "", "loadSavedConfig", 0, <<>>)}
    /\ chatHistory = <<>>
    /\ savedHistory = <<>>
    /\ isProcessing = FALSE
    /\ sendDisabled = FALSE
    /\ aiResult = NoResult
    /\ processed = NoResult
    /\ notification = NoNotice
    /\ now = 0
    /\ lastOp = Op("init", <<>>)

(***************************************************************************)
(* MCPTools.saveConfig: writes only a non-null configuration.              *)
(***************************************************************************)
saveConfig(cfg, saved) == IF cfg = NoConfig THEN saved ELSE cfg

(***************************************************************************)
(* MCPTools.loadConfigFromFile, from `await file.text()` on: the outcome   *)
(* [ok, config, saved, dom] of loading file into the given registry.       *)
(***************************************************************************)
loadConfigFromFile(file, cfg, saved, connected, dom) ==
    LET parsed == JSONparse(file) IN
    IF parsed = [throws |-> TRUE] \/ ~validateConfig(parsed)
    THEN [ok |-> FALSE, config |-> cfg, saved |-> saved, dom |-> dom]
    ELSE [ok |-> TRUE, config |-> parsed, saved |-> saveConfig(parsed, saved),
          dom |-> renderToolsList(parsed, connected, dom)]

(***************************************************************************)
(* MCPClientApp.handleConfigFile: the change handler of #config-file.  On  *)
(* a successful load it calls connectToMcpServers, which issues a          *)
(* connect-all request and returns at its await.                           *)
(***************************************************************************)
handleConfigFile(file) ==
    LET out == loadConfigFromFile(file, config, savedConfig, connectedServers, toolsList) IN
    /\ out.ok => CanSend
    /\ config' = out.config
    /\ savedConfig' = out.saved
    /\ toolsList' = out.dom
    /\ pending' = IF out.ok
                  THEN pending \cup {Req(FreshId, "connectAll", "", "", "connectToMcpServers", 0, <<>>)}
                  ELSE pending
    /\ notification' = IF out.ok THEN Notice("connecting", "info") ELSE notification
    /\ lastOp' = Op("loadConfigFromFile", <<out.ok>>)
    /\ UNCHANGED <<connectedServers, panelVars, chatVars, now>>

\* A variant that leaves the server connected, which C4 tells from the code's
\* delete.
disconnectServer_kept(connected, s) == connected

(***************************************************************************)
(* MCPTools.toggleServerConnection(serverName, false): there is no backend *)
(* disconnect, the name is deleted from the local set.                     *)
(***************************************************************************)
disconnectServer(connected, s) == connected \ {s}

\* The guards of toggleServerConnection before its try block.
CanToggleConnection(s) == hasApiAccess /\ HasServer(config, s)

SetDisabled(cfg, s, b) ==
    [cfg EXCEPT !.mcpServers.entries =
        [i \in DOMAIN @ |-> IF @[i].name = s THEN [@[i] EXCEPT !.disabled = b] ELSE @[i]]]

\* A variant that forgets every connection when the name is not in the
\* configuration, which C28 tells from the code's early return.
toggleServerStatus_forgetting(s) ==
    /\ lastOp' = Op("toggleServerStatus",
                    <<s, s \in connectedServers,
                      HasServer(config, s) /\ ~ServerConfig(config, s).disabled>>)
    /\ IF ~HasServer(config, s)
       THEN /\ connectedServers' = {}
            /\ UNCHANGED <<config, savedConfig, toolsList>>
       ELSE LET disabled == ~ServerConfig(config, s).disabled
                cfg == SetDisabled(config, s, disabled)
                conn == IF disabled /\ s \in connectedServers /\ CanToggleConnection(s)
                        THEN disconnectServer(connectedServers, s)
                        ELSE connectedServers
            IN  /\ config' = cfg
                /\ savedConfig' = saveConfig(cfg, savedConfig)
                /\ connectedServers' = conn
                /\ toolsList' = renderToolsList(cfg, conn, toolsList)
    /\ UNCHANGED <<panelVars, pending, chatVars, notification, now>>

(***************************************************************************)
(* MCPTools.toggleServerStatus: the Enable/Disable button of a server.     *)
(***************************************************************************)
toggleServerStatus(s) ==
    /\ lastOp' = Op("toggleServerStatus",
                    <<s, s \in connectedServers,
                      HasServer(config, s) /\ ~ServerConfig(config, s).disabled>>)
    /\ IF ~HasServer(config, s)
       THEN UNCHANGED registryVars
       ELSE LET disabled == ~ServerConfig(config, s).disabled
                cfg == SetDisabled(config, s, disabled)
                conn == IF disabled /\ s \in connectedServers /\ CanToggleConnection(s)
                        THEN disconnectServer(connectedServers, s)
                        ELSE connectedServers
            IN  /\ config' = cfg
                /\ savedConfig' = saveConfig(cfg, savedConfig)
                /\ connectedServers' = conn
                /\ toolsList' = renderToolsList(cfg, conn, toolsList)
    /\ UNCHANGED <<panelVars, pending, chatVars, notification, now>>

(***************************************************************************)
(* MCPTools.toggleServerConnection(serverName, connect), up to             *)
(* `await mcpApi.connectToMcpServer` when connect is true, to its end      *)
(* otherwise.                                                              *)
(***************************************************************************)
toggleServerConnection(s, connect) ==
    /\ lastOp' = Op("toggleServerConnection", <<s, connect>>)
    /\ IF ~CanToggleConnection(s)
       THEN UNCHANGED <<connectedServers, toolsList, pending>>
       ELSE IF connect
       THEN /\ CanSend
            /\ pending' = pending \cup
                  {Req(FreshId, "connect", s, "", "toggleServerConnection", 0, <<>>)}
            /\ UNCHANGED <<connectedServers, toolsList>>
       ELSE /\ connectedServers' = disconnectServer(connectedServers, s)
            /\ toolsList' = renderToolsList(config, connectedServers', toolsList)
            /\ UNCHANGED pending
    /\ UNCHANGED <<config, savedConfig, panelVars, chatVars, notification, now>>

(***************************************************************************)
(* The Connect/Disconnect button of the i-th rendered server section.  Its *)
(* listener captured !isConnected when the section was rendered, and the   *)
(* button is disabled for a server rendered as disabled.                   *)
(***************************************************************************)
clickConnectButton(i) ==
    /\ ~toolsList[i].isDisabled
    /\ toggleServerConnection(toolsList[i].server, ~toolsList[i].isConnected)

\* A variant that adds the name whatever the answer, which C14 tells from the
\* code's test of result.success.
connectResult_always(connected, s, outcome) == connected \cup {s}

(***************************************************************************)
(* MCPTools.toggleServerConnection(s, true) from the response of           *)
(* POST mcp/connect on: the new connected set.  outcome is "success"       *)
(* (result.success), "failure" (success false) or "throw" (request threw). *)
(***************************************************************************)
connectResult(connected, s, outcome) ==
    IF outcome = "success" THEN connected \cup {s} ELSE connected

ConnectOutcomes == {"success", "failure", "throw"}


(***************************************************************************)
(* Tool panels.  toolId is `tool-${serverName}-${toolName}-${Date.now()}`; *)
(* a panel element carries the one input of its form (its dataset.type)    *)
(* and what its result container shows.                                    *)
(***************************************************************************)
FieldTypes == {"boolean", "integer", "object", "string"}

ToolId(s, t, time) == <<s, t, time>>

PanelId(p) == ToolId(p.server, p.tool, p.time)

\* document.getElementById(toolId): the first element with the id, or 0.
ElementById(dom, id) ==
    IF \E i \in DOMAIN dom : PanelId(dom[i]) = id
    THEN CHOOSE i \in DOMAIN dom :
             /\ PanelId(dom[i]) = id
             /\ \A j \in DOMAIN dom : PanelId(dom[j]) = id => i <= j
    ELSE 0

SetResult(dom, id, result) ==
    LET i == ElementById(dom, id) IN
    IF i = 0 THEN dom ELSE [dom EXCEPT ![i].result = result]

\* Panels being opened: activateTool calls suspended at an await.
Opening == {r \in pending : r.cont = "activateTool"}

\* activateTool from `const toolId = ...` to `await mcpApi.getMcpTools`.
requestToolSchema(id, s, t) == Req(id, "getTools", s, t, "activateTool", now, <<>>)

(***************************************************************************)
(* MCPTools.activateTool(serverName, toolName): a click on a tool item of  *)
(* a rendered server section, up to the first await.                       *)
(***************************************************************************)
activateToolWithin(s, t, open) ==
    /\ HasServer(config, s)
    /\ t \in Range(ServerConfig(config, s).tools)
    /\ Len(panels) + Cardinality(Opening) < open
    /\ lastOp' = Op("activateTool", <<s, t>>)
    /\ IF s \notin connectedServers
       THEN IF ~ServerConfig(config, s).disabled
            THEN /\ CanSend
                 /\ CanToggleConnection(s)
                 /\ pending' = pending \cup {Req(FreshId, "connect", s, t, "activateTool", 0, <<>>)}
            ELSE UNCHANGED pending
       ELSE /\ CanSend
            /\ pending' = pending \cup {requestToolSchema(FreshId, s, t)}
    /\ UNCHANGED <<registryVars, panelVars, chatVars, notification, now>>

\* activateTool while fewer than MaxPanels panels are open or being opened.
activateTool(s, t) == activateToolWithin(s, t, MaxPanels)

(***************************************************************************)
(* The response of POST mcp/connect: toggleServerConnection resumes, and   *)
(* when activateTool awaited it, activateTool resumes after it.            *)
(***************************************************************************)
connectResponse(r, outcome) ==
    LET conn == connectResult(connectedServers, r.server, outcome) IN
    /\ r.kind = "connect"
    /\ lastOp' = Op("connectResponse", <<r.server, outcome>>)
    /\ connectedServers' = conn
    /\ toolsList' = IF outcome = "throw" THEN toolsList
                    ELSE renderToolsList(config, conn, toolsList)
    /\ pending' = IF r.cont = "activateTool" /\ r.server \in conn
                  THEN (pending \ {r}) \cup {requestToolSchema(r.id, r.server, r.tool)}
                  ELSE pending \ {r}
    /\ UNCHANGED <<config, savedConfig, panelVars, chatVars, notification, now>>

(***************************************************************************)
(* The response of GET mcp/tools/{server}: activateTool resumes, builds    *)
(* the form from the schema the backend gave, one field for each of its    *)
(* properties (a single field of type "string" is also                     *)
(* the default form of a failed or empty answer) and registers the panel.  *)
(***************************************************************************)
registerPanel(registry, id, s, t) ==
    {a \in registry : a.id # id} \cup {[id |-> id, serverName |-> s, toolName |-> t]}

toolsResponse(r, fields) ==
    /\ r.kind = "getTools"
    /\ lastOp' = Op("activateToolDone", <<r.server, r.tool>>)
    /\ panels' = Append(panels, [server |-> r.server, tool |-> r.tool, time |-> r.time,
                                 fields |-> fields, result |-> "hidden"])
    /\ activeTools' = registerPanel(activeTools, ToolId(r.server, r.tool, r.time),
                                    r.server, r.tool)
    /\ pending' = pending \ {r}
    /\ UNCHANGED <<registryVars, chatVars, notification, now>>

\* A variant that removes the element and keeps the registry entry, which
\* C19 tells from the code's delete.
closePanel_keepsEntry(i) ==
    /\ lastOp' = Op("closePanel", <<PanelId(panels[i])>>)
    /\ panels' = RemoveAt(panels, i)
    /\ UNCHANGED <<registryVars, activeTools, pending, chatVars, notification, now>>

\* The Close button of the i-th panel element: toolInterface.remove() and
\* the delete of the toolId the listener captured.
closePanel(i) ==
    /\ lastOp' = Op("closePanel", <<PanelId(panels[i])>>)
    /\ panels' = RemoveAt(panels, i)
    /\ activeTools' = {a \in activeTools : a.id # PanelId(panels[i])}
    /\ UNCHANGED <<registryVars, pending, chatVars, notification, now>>

\* The Close listener run again on the element it has just removed (a
\* second click event of the same button): remove() of a detached element
\* does nothing, and the delete is of the same toolId.
closeAgain ==
    /\ lastOp.op \in {"closePanel", "closeAgain"}
    /\ lastOp' = Op("closeAgain", lastOp.arg)
    /\ activeTools' = {a \in activeTools : a.id # lastOp.arg[1]}
    /\ UNCHANGED <<registryVars, panels, pending, chatVars, notification, now>>

(***************************************************************************)
(* The coercion of a form value in executeTool.  A value is the text of    *)
(* the input (or the state of its checkbox); the result is the JSON value  *)
(* sent, written as text, or a throw.                                      *)
(***************************************************************************)
\* The texts typed into a field.
RawValues == {"abc", "12"}

\* input.value of the field holding the typed text: an <input type="number">
\* (the field of an integer or number property) has the value '' when the
\* text is no number.
inputValue(fieldType, text) ==
    IF fieldType = "integer" /\ text # "12" THEN "" ELSE text

\* Number(value): no error on a value that is no number; Number('') is 0 and
\* Number of any other text that is no number is NaN.
NumberOf(value) ==
    CASE value = "12" -> "12"
      [] value = "" -> "0"
      [] OTHER -> "NaN"

\* JSON.parse(text) of a form value.
ParsesAsJson(text) == text = "12"

coerceInput(fieldType, text, checked) ==
    CASE fieldType = "boolean" ->
             [throws |-> FALSE, value |-> IF checked THEN "true" ELSE "false"]
      [] fieldType = "integer" -> [throws |-> FALSE, value |-> NumberOf(text)]
      [] fieldType = "object" ->
             IF ParsesAsJson(text) THEN [throws |-> FALSE, value |-> text]
             ELSE [throws |-> TRUE, value |-> "Invalid JSON"]
      [] OTHER -> [throws |-> FALSE, value |-> text]

\* A variant that leaves a field out when its conversion throws, which C18
\* tells from the code's throw out of the loop.
RECURSIVE collectInputs_skipping(_, _, _, _)
collectInputs_skipping(fields, texts, checked, inputs) ==
    IF fields = <<>> THEN [throws |-> FALSE, inputs |-> inputs]
    ELSE LET in == coerceInput(Head(fields), inputValue(Head(fields), Head(texts)), checked)
         IN  collectInputs_skipping(Tail(fields), Tail(texts), checked,
                                    IF in.throws THEN inputs ELSE Append(inputs, in.value))

\* inputElements.forEach of executeTool: the argument map collected from the
\* fields in order, up to the first conversion that throws.
RECURSIVE collectInputs(_, _, _, _)
collectInputs(fields, texts, checked, inputs) ==
    IF fields = <<>> THEN [throws |-> FALSE, inputs |-> inputs]
    ELSE LET in == coerceInput(Head(fields), inputValue(Head(fields), Head(texts)), checked)
         IN  IF in.throws THEN [throws |-> TRUE, inputs |-> inputs]
             ELSE collectInputs(Tail(fields), Tail(texts), checked, Append(inputs, in.value))

\* The check executeTool makes before it reads the form.
serverIsConnected(connected, s) == s \in connected

(***************************************************************************)
(* MCPTools.executeTool(toolId, serverName, toolName): the Execute button  *)
(* of the i-th panel element, with the fields holding texts / checked, to  *)
(* `await mcpApi.callMcpTool`.                                             *)
(***************************************************************************)
executeTool(i, texts, checked) ==
    LET p == panels[i]
        id == PanelId(p)
        form == panels[ElementById(panels, id)]
        in == collectInputs(form.fields, texts, checked, <<>>)
    IN  /\ Len(texts) = Len(form.fields)
        /\ lastOp' = Op("executeTool", <<form.fields, texts>>)
        /\ IF ~hasApiAccess
           THEN /\ panels' = SetResult(panels, id, "noApi")
                /\ UNCHANGED pending
           ELSE IF ~serverIsConnected(connectedServers, p.server)
           THEN /\ panels' = SetResult(panels, id, "notConnected")
                /\ UNCHANGED pending
           ELSE IF in.throws
           THEN /\ panels' = SetResult(panels, id, "error")
                /\ UNCHANGED pending
           ELSE /\ CanSend
                /\ panels' = SetResult(panels, id, "executing")
                /\ pending' = pending \cup
                      {Req(FreshId, "callTool", p.server, p.tool, "executeTool", p.time, in.inputs)}
        /\ UNCHANGED <<registryVars, activeTools, chatVars, notification, now>>

(***************************************************************************)
(* MCPClientAPI.executeCommand(command): callMcpTool on the                *)
(* terminal-controller server; the API wrapper knows no connected set.     *)
(***************************************************************************)
executeCommand(command) ==
    /\ CanSend
    /\ lastOp' = Op("executeCommand", <<>>)
    /\ pending' = pending \cup
          {Req(FreshId, "callTool", TerminalServer, "execute-command", "", 0, <<command>>)}
    /\ UNCHANGED <<registryVars, panelVars, chatVars, notification, now>>

\* The response of POST mcp/call_tool: executeTool shows it in the result
\* container it looked up before the call; executeCommand's caller gets it.
callToolResponse(r, outcome) ==
    /\ r.kind = "callTool"
    /\ lastOp' = Op("callToolResponse", <<r.server, outcome>>)
    /\ pending' = pending \ {r}
    /\ panels' = IF r.cont = "executeTool"
                 THEN SetResult(panels, ToolId(r.server, r.tool, r.time),
                                CASE outcome = "success" -> "ok"
                                  [] outcome = "failure" -> "failed"
                                  [] OTHER -> "error")
                 ELSE panels
    /\ UNCHANGED <<registryVars, activeTools, chatVars, notification, now>>

(***************************************************************************)
(* MCPClientApp.connectToMcpServers: the Connect-All button, up to         *)
(* `await mcpApi.connectToAllMcpServers`.                                  *)
(***************************************************************************)
connectToMcpServers ==
    /\ CanSend
    /\ lastOp' = Op("connectToMcpServers",
                    IF lastOp.op = "connectAllResponse" THEN <<lastOp.arg[1]>> ELSE <<>>)
    /\ pending' = pending \cup {Req(FreshId, "connectAll", "", "", "connectToMcpServers", 0, <<>>)}
    /\ notification' = Notice("connecting", "info")
    /\ UNCHANGED <<registryVars, panelVars, chatVars, now>>

\* What POST mcp/connect-all may answer: success with a list of names (or
\* without one), success false, or a failed request.
ConnectAllResults(names) ==
    {[outcome |-> "success", hasServers |-> TRUE, servers |-> S] : S \in SUBSET names}
        \cup {[outcome |-> "success", hasServers |-> FALSE, servers |-> {}],
              [outcome |-> "failure", hasServers |-> FALSE, servers |-> {}],
              [outcome |-> "throw", hasServers |-> FALSE, servers |-> {}]}

\* A variant that flips the membership of every name returned, which C7 tells
\* from the code's add.
mergeServers_flip(connected, result) ==
    IF result.outcome = "success" /\ result.hasServers
    THEN (connected \ result.servers) \cup (result.servers \ connected)
    ELSE connected

\* connectToMcpServers after the await: every name returned is added.
mergeServers(connected, result) ==
    IF result.outcome = "success" /\ result.hasServers
    THEN connected \cup result.servers
    ELSE connected

\* The last handler run was connectToMcpServers answered with result, with at
\* most the next call of connectToMcpServers since.
InSuccession(result) ==
    /\ lastOp.op \in {"connectAllResponse", "connectToMcpServers"}
    /\ lastOp.arg # <<>>
    /\ lastOp.arg[1] = result

connectAllResponse(r, result) ==
    /\ r.kind = "connectAll"
    /\ r.cont = "connectToMcpServers"
    /\ lastOp' = Op("connectAllResponse", <<result, InSuccession(result)>>)
    /\ pending' = pending \ {r}
    /\ connectedServers' = mergeServers(connectedServers, result)
    /\ toolsList' = IF result.outcome = "success"
                    THEN renderToolsList(config, connectedServers', toolsList)
                    ELSE toolsList
    /\ notification' = CASE result.outcome = "success" -> Notice("connectAllResult", "success")
                         [] result.outcome = "failure" -> Notice("connectAllResult", "warning")
                         [] OTHER -> Notice("connectAllError", "error")
    /\ UNCHANGED <<config, savedConfig, panelVars, chatVars, now>>

(***************************************************************************)
(* MCPTools.loadSavedConfig: the answer to the startup fetch of            *)
(* mcp-config.json.  fetched is the file served, ok whether the response   *)
(* had a success status; a failed fetch falls back to localStorage.        *)
(***************************************************************************)
loadSavedConfigResponse(r, fetched, ok) ==
    LET parsed == JSONparse(fetched)
        fallback == ~ok \/ parsed = [throws |-> TRUE]
        accepted == ~fallback /\ validateConfig(parsed)
        restored == fallback /\ savedConfig # NoConfig
    IN  /\ r.kind = "fetchConfig"
        /\ lastOp' = Op("loadSavedConfig", <<fallback>>)
        /\ pending' = pending \ {r}
        /\ config' = IF accepted THEN parsed ELSE IF restored THEN savedConfig ELSE config
        /\ savedConfig' = IF accepted THEN saveConfig(parsed, savedConfig) ELSE savedConfig
        /\ toolsList' = IF accepted \/ restored
                        THEN renderToolsList(config', connectedServers, toolsList)
                        ELSE toolsList
        /\ UNCHANGED <<connectedServers, panelVars, chatVars, notification, now>>

\* What the web server may hold as mcp-config.json.
ServedFiles ==
    {[kind |-> "badJson", servers |-> <<>>],
     [kind |-> "object", servers |-> <<>>],
     [kind |-> "object",
      servers |-> <<[name |-> "0", disabled |-> FALSE, tools |-> <<"list_dir">>],
                    [name |-> "fs", disabled |-> TRUE, tools |-> <<"list_dir">>]>>]}

\* Time passes: Date.now() grows.
Tick ==
    /\ now < MaxTime
    /\ now' = now + 1
    /\ lastOp' = Op("tick", <<>>)
    /\ UNCHANGED <<registryVars, panelVars, pending, chatVars, notification>>

(***************************************************************************)
(* The registry and the connections: configuration loading, the startup    *)
(* fetch, enabling and disabling, connect-one and connect-all.             *)
(***************************************************************************)
Outcomes == {"success", "failure", "throw"}

Server(n, disabled) == [name |-> n, disabled |-> disabled, tools |-> <<"list_dir">>]

\* The files the user loads here; SpecLoad loads every file of ConfigFiles.
LoadFiles ==
    {[kind |-> "object", servers |-> <<Server("fs", FALSE)>>],
     [kind |-> "object", servers |-> <<Server("fs", FALSE), Server("0", TRUE)>>],
     [kind |-> "object", servers |-> <<>>],
     [kind |-> "badJson", servers |-> <<>>]}

Next ==
    \/ \E file \in LoadFiles : handleConfigFile(file)
    \/ \E r \in pending, f \in ServedFiles, ok \in BOOLEAN : loadSavedConfigResponse(r, f, ok)
    \/ \E s \in ServerNames : toggleServerStatus(s)
    \/ \E i \in DOMAIN toolsList : clickConnectButton(i)
    \/ \E r \in pending, o \in ConnectOutcomes : connectResponse(r, o)
    \/ connectToMcpServers
    \/ \E r \in pending, res \in ConnectAllResults(ServerNames) : connectAllResponse(r, res)

Spec == Init /\ [][Next]_vars

(***************************************************************************)
(* Loading one file into a registry: every file of ConfigFiles, from every *)
(* configuration a load or a toggle can have left, with any connected set. *)
(***************************************************************************)
LoadedConfigs ==
    {NoConfig} \cup {JSONparse(f) : f \in {g \in ObjectFiles \cup ArrayFiles : g.servers # <<>>}}

InitLoad ==
    /\ config \in LoadedConfigs
    /\ savedConfig \in IF config = NoConfig THEN SavedConfigs ELSE {config}
    /\ connectedServers \in SUBSET ServerNames
    /\ toolsList = renderToolsList(config, connectedServers, <<>>)
    /\ activeTools = {}
    /\ panels = <<>>
    /\ pending = {}
    /\ chatHistory = <<>>
    /\ savedHistory = <<>>
    /\ isProcessing = FALSE
    /\ sendDisabled = FALSE
    /\ aiResult = NoResult
    /\ processed = NoResult
    /\ notification = NoNotice
    /\ now = 0
    /\ lastOp = Op("init", <<>>)

NextLoad == \E file \in ConfigFiles : lastOp.op = "init" /\ handleConfigFile(file)

SpecLoad == InitLoad /\ [][NextLoad]_vars

(***************************************************************************)
(* JavaScript values of the answer of mcp/ai_process: a string, undefined  *)
(* (an absent property) or a number; str is what string concatenation and  *)
(* template literals make of the value.                                    *)
(***************************************************************************)
Str(s) == [type |-> "string", str |-> s]
Undefined == [type |-> "undefined", str |-> <<"undefined">>]
Num(s) == [type |-> "number", str |-> s]

\* The operand test of ||: undefined and '' are falsy (the numbers here are
\* not 0).
Falsy(v) == v.type = "undefined" \/ (v.type = "string" /\ v.str = <<>>)

\* String.prototype.includes('_').
includes(str, token) == \E i \in DOMAIN str : str[i] = token

\* String.prototype.split('_'): the segments between the separators.
RECURSIVE split(_, _)
split(str, sep) ==
    IF ~includes(str, sep) THEN <<str>>
    ELSE LET i == CHOOSE k \in DOMAIN str :
                      str[k] = sep /\ \A j \in 1..(k - 1) : str[j] # sep
         IN  <<SubSeq(str, 1, i - 1)>> \o split(SubSeq(str, i + 1, Len(str)), sep)

\* Array.prototype.slice(1).
slice1(parts) == SubSeq(parts, 2, Len(parts))

\* Array.prototype.join('_').
RECURSIVE join(_, _)
join(parts, sep) ==
    IF parts = <<>> THEN <<>>
    ELSE IF Len(parts) = 1 THEN parts[1]
    ELSE parts[1] \o <<sep>> \o join(Tail(parts), sep)

\* usedTools.some(tool => tool.name === step.tool).
alreadyPresent(usedTools, tool) ==
    \E i \in DOMAIN usedTools : tool.type = "string" /\ usedTools[i].name = tool.str

\* A variant that keeps only the segment after the first underscore, which C9
\* tells from the code's slice(1).join('_').
usedTool_secondSegment(tool) ==
    IF includes(tool, "_")
    THEN [name |-> split(tool, "_")[2], server |-> split(tool, "_")[1]]
    ELSE [name |-> tool, server |-> <<>>]

\* The entry a tool_call step pushes (its args are left out).
usedTool(tool) ==
    IF includes(tool, "_")
    THEN [name |-> join(slice1(split(tool, "_")), "_"), server |-> split(tool, "_")[1]]
    ELSE [name |-> tool, server |-> <<>>]

\* `\n\n[tool: ${step.tool}]\n` (the label of the source is left in English).
toolCallText(tool) == <<"\n\n[tool: ">> \o tool.str \o <<"]\n">>

\* `\nresult: ${step.content}\n\n`.
toolResultText(content) == <<"\nresult: ">> \o content.str \o <<"\n\n">>

\* The step of the loop over result.steps: acc is [text, usedTools, throws].
formatStep(step, acc) ==
    CASE step.type = "response" ->
             [acc EXCEPT !.text = @ \o step.content.str]
      [] step.type = "tool_call" ->
             IF alreadyPresent(acc.usedTools, step.tool)
             THEN [acc EXCEPT !.text = @ \o toolCallText(step.tool)]
             ELSE IF step.tool.type # "string"
             THEN [acc EXCEPT !.throws = TRUE]
             ELSE [acc EXCEPT !.usedTools = Append(@, usedTool(step.tool.str)),
                              !.text = @ \o toolCallText(step.tool)]
      [] step.type = "tool_result" ->
             [acc EXCEPT !.text = @ \o toolResultText(step.content)]
      [] OTHER -> acc

\* A variant that goes through the steps from the last to the first, which
\* C23 tells from the code's for...of.
RECURSIVE formatSteps_backwards(_, _)
formatSteps_backwards(steps, acc) ==
    IF steps = <<>> \/ acc.throws THEN acc
    ELSE formatSteps_backwards(SubSeq(steps, 1, Len(steps) - 1),
                               formatStep(steps[Len(steps)], acc))

\* for (const step of result.steps).
RECURSIVE formatSteps(_, _)
formatSteps(steps, acc) ==
    IF steps = <<>> \/ acc.throws THEN acc
    ELSE formatSteps(Tail(steps), formatStep(Head(steps), acc))

(***************************************************************************)
(* MCPClientApp.processAiWithToolsResponse(result).  result is null,       *)
(* [steps |-> <<>>, hasSteps |-> FALSE, response |-> v] or an answer with  *)
(* steps; the value is [throws, processedResponse, usedTools].             *)
(***************************************************************************)
NullResult == [null |-> TRUE]
Threw == [throws |-> TRUE, processedResponse |-> Undefined, usedTools |-> <<>>]
NoResponse == Str(<<"No response received">>)

\* A variant that returns the rendering of the steps also when it is
\* empty, which C38 tells from the code's `||` chain.
processAiWithToolsResponse_noFallback(result) ==
    IF result = NullResult THEN Threw
    ELSE IF ~result.hasSteps
    THEN [throws |-> FALSE,
          processedResponse |-> IF Falsy(result.response) THEN NoResponse ELSE result.response,
          usedTools |-> <<>>]
    ELSE LET out == formatSteps(result.steps, [text |-> <<>>, usedTools |-> <<>>, throws |-> FALSE])
         IN  IF out.throws THEN Threw
             ELSE [throws |-> FALSE,
                   processedResponse |-> Str(out.text),
                   usedTools |-> out.usedTools]

processAiWithToolsResponse(result) ==
    IF result = NullResult THEN Threw
    ELSE IF ~result.hasSteps
    THEN [throws |-> FALSE,
          processedResponse |-> IF Falsy(result.response) THEN NoResponse ELSE result.response,
          usedTools |-> <<>>]
    ELSE LET out == formatSteps(result.steps, [text |-> <<>>, usedTools |-> <<>>, throws |-> FALSE])
         IN  IF out.throws THEN Threw
             ELSE [throws |-> FALSE,
                   processedResponse |->
                       IF out.text # <<>> THEN Str(out.text)
                       ELSE IF Falsy(result.response) THEN NoResponse ELSE result.response,
                   usedTools |-> out.usedTools]

(***************************************************************************)
(* Tool panels and tool calls, on a registry that has loaded a file.       *)
(***************************************************************************)
PanelConfigs ==
    {JSONparse([kind |-> "object", servers |-> <<Server("fs", FALSE), Server("0", TRUE)>>])}

InitPanels ==
    /\ config \in PanelConfigs
    /\ savedConfig = config
    /\ connectedServers = {}
    /\ toolsList = renderToolsList(config, connectedServers, <<>>)
    /\ activeTools = {}
    /\ panels = <<>>
    /\ pending = {}
    /\ chatHistory = <<>>
    /\ savedHistory = <<>>
    /\ isProcessing = FALSE
    /\ sendDisabled = FALSE
    /\ aiResult = NoResult
    /\ processed = NoResult
    /\ notification = NoNotice
    /\ now = 0
    /\ lastOp = Op("init", <<>>)

NextPanels ==
    \/ \E s \in ServerNames : toggleServerStatus(s)
    \/ \E r \in pending, o \in ConnectOutcomes : connectResponse(r, o)
    \/ \E s \in ServerNames, t \in ToolNames : activateTool(s, t)
    \/ \E r \in pending, ft \in FieldTypes : toolsResponse(r, <<ft>>)
    \/ \E i \in DOMAIN panels : closePanel(i)
    \/ \E i \in DOMAIN panels, text \in RawValues, checked \in BOOLEAN :
           executeTool(i, <<text>>, checked)
    \/ \E command \in {"ls"} : executeCommand(command)
    \/ \E r \in pending, o \in Outcomes : callToolResponse(r, o)

SpecPanels == InitPanels /\ [][NextPanels]_vars

(***************************************************************************)
(* Forms of several fields, closing, and direct calls of                   *)
(* toggleServerConnection, on a registry whose enabled server is           *)
(* connected.                                                              *)
(***************************************************************************)
MaxFields == 2

\* The forms createFormFromSchema builds: one field for each property.
Schemas == UNION {[1..n -> FieldTypes] : n \in 1..MaxFields}

\* The texts the fields of a form hold when Execute is clicked.
Texts == UNION {[1..n -> RawValues] : n \in 1..MaxFields}

InitForms ==
    /\ config \in PanelConfigs
    /\ savedConfig = config
    /\ connectedServers = {"fs"}
    /\ toolsList = renderToolsList(config, connectedServers, <<>>)
    /\ activeTools = {}
    /\ panels = <<>>
    /\ pending = {}
    /\ chatHistory = <<>>
    /\ savedHistory = <<>>
    /\ isProcessing = FALSE
    /\ sendDisabled = FALSE
    /\ aiResult = NoResult
    /\ processed = NoResult
    /\ notification = NoNotice
    /\ now = 0
    /\ lastOp = Op("init", <<>>)

(***************************************************************************)
(* Panels opened side by side while the clock of Date.now() advances or    *)
(* stands still between two activations.                                   *)
(***************************************************************************)
MaxOpen == 2

NextSideBySide ==
    \/ \E s \in ServerNames, t \in ToolNames : activateToolWithin(s, t, MaxOpen)
    \/ \E r \in pending, fields \in Schemas : toolsResponse(r, fields)
    \/ \E i \in DOMAIN panels : closePanel(i)
    \/ Tick

SpecSideBySide == InitForms /\ [][NextSideBySide]_vars

NextForms ==
    \/ \E s \in ServerNames, t \in ToolNames : activateTool(s, t)
    \/ \E r \in pending, fields \in Schemas : toolsResponse(r, fields)
    \/ \E i \in DOMAIN panels : closePanel(i)
    \/ closeAgain
    \/ \E i \in DOMAIN panels, texts \in Texts, checked \in BOOLEAN :
           executeTool(i, texts, checked)
    \/ \E r \in pending, o \in Outcomes : callToolResponse(r, o)

SpecForms == InitForms /\ [][NextForms]_vars

(***************************************************************************)
(* Calls of toggleServerConnection, from the buttons and from a script of  *)
(* the page (the object is window.mcpTools), on a registry that has loaded *)
(* a file.                                                                 *)
(***************************************************************************)
NextConnect ==
    \/ \E s \in ServerNames, connect \in BOOLEAN : toggleServerConnection(s, connect)
    \/ \E i \in DOMAIN toolsList : clickConnectButton(i)
    \/ \E r \in pending, o \in ConnectOutcomes : connectResponse(r, o)
    \/ \E s \in ServerNames : toggleServerStatus(s)

SpecConnect == InitPanels /\ [][NextConnect]_vars

(***************************************************************************)
(* MCPClientApp.addMessageToChat(role, content, usedTools): the entry      *)
(* pushed (its timestamp is left out).  formatMessage calls                *)
(* content.replace, which throws on a content that is no string, before    *)
(* anything is pushed.                                                     *)
(***************************************************************************)
addMessageThrows(content) == content.type # "string"

\* A variant that pushes an assistant entry twice, which C3 tells from the
\* code's single push.
addMessageToChat_twice(history, role, content, usedTools) ==
    LET entry == [role |-> role, content |-> content.str, usedTools |-> usedTools] IN
    IF role = "ai" THEN history \o <<entry, entry>> ELSE Append(history, entry)

addMessageToChat(history, role, content, usedTools) ==
    Append(history, [role |-> role, content |-> content.str, usedTools |-> usedTools])

\* MCPClientApp.saveChatHistory: what localStorage holds afterwards.
saveChatHistory(history) == history

\* `Error: ${error.message}`.
ErrorText(message) == Str(<<"Error: ", message>>)

(***************************************************************************)
(* MCPClientApp.sendMessage, up to `await mcpApi.connectToAllMcpServers`.  *)
(* message is the trimmed text of the input, provider and model the        *)
(* current selection, apiKey the key stored for the provider.              *)
(***************************************************************************)
Messages == {<<>>, <<"hi">>}
Providers == {"", "ollama", "openai"}
Models == {"", "m"}
ApiKeys == {"", "k"}

\* A variant without the isProcessing check, which C2 tells from the code's.
sendMessageGuard_reentrant(processing, message, provider, model, apiKey) ==
    IF message = <<>> THEN "empty"
    ELSE IF provider = "" \/ model = "" THEN "noModel"
    ELSE IF provider # "ollama" /\ apiKey = "" THEN "noKey"
    ELSE "accepted"

\* A variant without the API key check, which C34 tells from the code's.
sendMessageGuard_noKeyCheck(processing, message, provider, model, apiKey) ==
    IF processing THEN "busy"
    ELSE IF message = <<>> THEN "empty"
    ELSE IF provider = "" \/ model = "" THEN "noModel"
    ELSE "accepted"

\* The checks before a turn is accepted.
sendMessageGuard(processing, message, provider, model, apiKey) ==
    IF processing THEN "busy"
    ELSE IF message = <<>> THEN "empty"
    ELSE IF provider = "" \/ model = "" THEN "noModel"
    ELSE IF provider # "ollama" /\ apiKey = "" THEN "noKey"
    ELSE "accepted"

\* A turn in flight: a sendMessage suspended at one of its awaits.
Turns == {r \in pending : r.cont = "sendMessage"}

sendMessage(message, provider, model, apiKey) ==
    LET outcome == sendMessageGuard(isProcessing, message, provider, model, apiKey) IN
    /\ lastOp' = Op("sendMessage", <<outcome>>)
    /\ IF outcome = "accepted"
       THEN /\ CanSend
            /\ Len(chatHistory) + 2 <= MaxHistory
            /\ isProcessing' = TRUE
            /\ sendDisabled' = TRUE
            /\ chatHistory' = addMessageToChat(chatHistory, "user", Str(message), <<>>)
            /\ pending' = pending \cup {Req(FreshId, "connectAll", "", "", "sendMessage", 0, <<>>)}
            /\ UNCHANGED notification
       ELSE /\ notification' =
                  CASE outcome = "busy" -> Notice("stillProcessing", "warning")
                    [] outcome = "noModel" -> Notice("selectModel", "error")
                    [] outcome = "noKey" -> Notice("enterApiKey", "error")
                    [] OTHER -> notification
            /\ UNCHANGED <<isProcessing, sendDisabled, chatHistory, pending>>
    /\ UNCHANGED <<registryVars, panelVars, savedHistory, aiResult, processed, now>>

\* A variant whose error path leaves the flags set, which C11 tells from the
\* code's finally block.
sendMessageFailed_stuck(message) ==
    /\ chatHistory' = addMessageToChat(chatHistory, "ai", ErrorText(message), <<>>)
    /\ savedHistory' = saveChatHistory(chatHistory')
    /\ notification' = Notice("error", "error")
    /\ UNCHANGED <<isProcessing, sendDisabled>>

\* The catch and finally blocks of sendMessage.
sendMessageFailed(message) ==
    /\ chatHistory' = addMessageToChat(chatHistory, "ai", ErrorText(message), <<>>)
    /\ savedHistory' = saveChatHistory(chatHistory')
    /\ notification' = Notice("error", "error")
    /\ isProcessing' = FALSE
    /\ sendDisabled' = FALSE

\* A variant that forgets the connections when its connect-all request
\* fails, which C32 tells from the code's catch block.
sendMessageConnected_resetting(r, result) ==
    /\ r.kind = "connectAll"
    /\ r.cont = "sendMessage"
    /\ lastOp' = Op("sendMessageConnected", <<result.outcome>>)
    /\ IF result.outcome = "throw"
       THEN /\ sendMessageFailed("connect-all failed")
            /\ pending' = pending \ {r}
            /\ connectedServers' = {}
       ELSE /\ pending' = (pending \ {r}) \cup {Req(r.id, "aiProcess", "", "", "sendMessage", 0, <<>>)}
            /\ UNCHANGED <<chatHistory, savedHistory, notification, isProcessing, sendDisabled,
                           connectedServers>>
    /\ UNCHANGED <<config, savedConfig, toolsList, panelVars, aiResult, processed, now>>

\* A variant that goes on to mcp/ai_process also when its connect-all
\* request failed, which C36 tells from the code's single try block.
sendMessageConnected_forwarding(r, result) ==
    /\ r.kind = "connectAll"
    /\ r.cont = "sendMessage"
    /\ lastOp' = Op("sendMessageConnected", <<result.outcome>>)
    /\ pending' = (pending \ {r}) \cup {Req(r.id, "aiProcess", "", "", "sendMessage", 0, <<>>)}
    /\ UNCHANGED <<chatHistory, savedHistory, notification, isProcessing, sendDisabled>>
    /\ UNCHANGED <<registryVars, panelVars, aiResult, processed, now>>

(***************************************************************************)
(* sendMessage resumes on the answer of mcp/connect-all: the answer is     *)
(* dropped, a failed request ends the turn in the catch block.             *)
(***************************************************************************)
sendMessageConnected(r, result) ==
    /\ r.kind = "connectAll"
    /\ r.cont = "sendMessage"
    /\ lastOp' = Op("sendMessageConnected", <<result.outcome>>)
    /\ IF result.outcome = "throw"
       THEN /\ sendMessageFailed("connect-all failed")
            /\ pending' = pending \ {r}
       ELSE /\ pending' = (pending \ {r}) \cup {Req(r.id, "aiProcess", "", "", "sendMessage", 0, <<>>)}
            /\ UNCHANGED <<chatHistory, savedHistory, notification, isProcessing, sendDisabled>>
    /\ UNCHANGED <<registryVars, panelVars, aiResult, processed, now>>

\* A variant that processes the answer in hand also when the request
\* failed, which C25 tells from the code's catch block.
sendMessageAnswered_processing(r, ok, result) ==
    LET out == processAiWithToolsResponse(result) IN
    /\ r.kind = "aiProcess"
    /\ r.cont = "sendMessage"
    /\ lastOp' = Op("sendMessageAnswered", <<IF ok THEN "answered" ELSE "failed">>)
    /\ pending' = pending \ {r}
    /\ aiResult' = result
    /\ processed' = out
    /\ IF out.throws \/ addMessageThrows(out.processedResponse)
       THEN sendMessageFailed("TypeError")
       ELSE /\ chatHistory' = addMessageToChat(chatHistory, "ai",
                                               out.processedResponse, out.usedTools)
            /\ savedHistory' = saveChatHistory(chatHistory')
            /\ isProcessing' = FALSE
            /\ sendDisabled' = FALSE
            /\ UNCHANGED notification
    /\ UNCHANGED <<registryVars, panelVars, now>>

(***************************************************************************)
(* sendMessage resumes on the answer of mcp/ai_process (ok: the request    *)
(* did not throw) and runs to its end.                                     *)
(***************************************************************************)
sendMessageAnswered(r, ok, result) ==
    LET out == processAiWithToolsResponse(result) IN
    /\ r.kind = "aiProcess"
    /\ r.cont = "sendMessage"
    /\ lastOp' = Op("sendMessageAnswered", <<IF ok THEN "answered" ELSE "failed">>)
    /\ pending' = pending \ {r}
    /\ IF ~ok
       THEN /\ sendMessageFailed("ai_process failed")
            /\ UNCHANGED <<aiResult, processed>>
       ELSE /\ aiResult' = result
            /\ processed' = out
            /\ IF out.throws \/ addMessageThrows(out.processedResponse)
               THEN sendMessageFailed("TypeError")
               ELSE /\ chatHistory' = addMessageToChat(chatHistory, "ai",
                                                       out.processedResponse, out.usedTools)
                    /\ savedHistory' = saveChatHistory(chatHistory')
                    /\ isProcessing' = FALSE
                    /\ sendDisabled' = FALSE
                    /\ UNCHANGED notification
    /\ UNCHANGED <<registryVars, panelVars, now>>

(***************************************************************************)
(* Answers of mcp/ai_process.                                              *)
(***************************************************************************)
Step(type, content, tool) == [type |-> type, content |-> content, tool |-> tool]
toolCall(tool) == Step("tool_call", Undefined, tool)
toolResult(content) == Step("tool_result", content, Undefined)
response(content) == Step("response", content, Undefined)

Answer(steps, resp) == [steps |-> steps, hasSteps |-> TRUE, response |-> resp]
NoSteps(resp) == [steps |-> <<>>, hasSteps |-> FALSE, response |-> resp]

fs_list_dir == <<"fs", "_", "list", "_", "dir">>

\* The answer of the spec's example.
ExampleAnswer ==
    Answer(<<toolCall(Str(fs_list_dir)),
             toolResult(Str(<<"[a.txt, b.txt]">>)),
             response(Str(<<"Here are your files.">>))>>,
           Undefined)

\* An answer whose second step is a tool_call without a tool.
BrokenAnswer ==
    Answer(<<response(Str(<<"Here are your files.">>)),
             toolCall(Undefined),
             response(Str(<<"Done.">>))>>,
           Undefined)

\* The answers of a chat turn.
\* An answer whose only step is a response with the content ''.
SilentAnswer == Answer(<<response(Str(<<>>))>>, Str(<<"ok">>))

ChatAnswers ==
    {NullResult, NoSteps(Undefined), NoSteps(Str(<<"ok">>)), NoSteps(Num(<<"42">>)),
     Answer(<<>>, Str(<<>>)), Answer(<<toolCall(Undefined)>>, Undefined), ExampleAnswer,
     BrokenAnswer, SilentAnswer}

(***************************************************************************)
(* The chat turn engine.                                                   *)
(***************************************************************************)
NextChat ==
    \/ \E m \in Messages, p \in Providers, mo \in Models, k \in ApiKeys : sendMessage(m, p, mo, k)
    \/ \E r \in pending, res \in ConnectAllResults(ServerNames) : sendMessageConnected(r, res)
    \/ \E r \in pending, ok \in BOOLEAN, res \in ChatAnswers : sendMessageAnswered(r, ok, res)

SpecChat == Init /\ [][NextChat]_vars

\* The promise of a fetch settles: a turn's request in flight is answered, or
\* fails, in the end.
Settles ==
    \/ \E r \in pending, res \in ConnectAllResults(ServerNames) : sendMessageConnected(r, res)
    \/ \E r \in pending, ok \in BOOLEAN, res \in ChatAnswers : sendMessageAnswered(r, ok, res)

LiveChat == SpecChat /\ WF_vars(Settles)

(***************************************************************************)
(* MCPClientApp.activateToolsFromMessage(message): the tools button of an  *)
(* assistant message, up to `await mcpApi.processWithAI`.  It does not     *)
(* look at isProcessing.                                                   *)
(***************************************************************************)
activateToolsFromMessage(i) ==
    /\ chatHistory[i].role = "ai"
    /\ lastOp' = Op("activateToolsFromMessage", <<>>)
    /\ IF config = NoConfig \/ ~hasApiAccess
       THEN UNCHANGED pending
       ELSE /\ CanSend
            /\ pending' = pending \cup
                  {Req(FreshId, "aiProcess", "", "", "activateToolsFromMessage", 0, <<>>)}
    /\ UNCHANGED <<registryVars, panelVars, chatVars, notification, now>>

\* toolCall.tool as the text that is compared with the tool names of the
\* configuration; "" stands for a text that is the name of no tool.
ToolText(tool) ==
    IF tool.type # "string" THEN ""
    ELSE IF Len(tool.str) = 1 THEN tool.str[1]
    ELSE IF tool.str = <<"list", "_", "dir">> THEN "list_dir"
    ELSE ""

IsToolCall(step) == step.type = "tool_call"

\* result.steps.filter(step => step.type === 'tool_call'), as texts.
toolCallsOf(result) ==
    LET calls == SelectSeq(result.steps, IsToolCall)
    IN  [k \in DOMAIN calls |-> ToolText(calls[k].tool)]

\* The servers of the configuration that are not disabled and offer the tool.
Offering(cfg, toolName) ==
    {k \in DOMAIN Entries(cfg) : /\ ~Entries(cfg)[k].disabled
                                 /\ toolName \in Range(Entries(cfg)[k].tools)}

(***************************************************************************)
(* activateToolsFromMessage resumes on the answer of mcp/ai_process: a     *)
(* failed request and a null answer end in the catch block, an answer with *)
(* tool_call steps goes on to `await mcpApi.connectToAllMcpServers`.       *)
(***************************************************************************)
activateToolsAnswered(r, ok, result) ==
    /\ r.kind = "aiProcess"
    /\ r.cont = "activateToolsFromMessage"
    /\ lastOp' = Op("activateToolsAnswered", <<IF ok THEN "answered" ELSE "failed">>)
    /\ IF ~ok \/ result = NullResult
       THEN /\ pending' = pending \ {r}
            /\ notification' = Notice("activateError", "info")
       ELSE IF ~result.hasSteps \/ toolCallsOf(result) = <<>>
       THEN /\ pending' = pending \ {r}
            /\ UNCHANGED notification
       ELSE /\ pending' = (pending \ {r}) \cup
                  {Req(r.id, "connectAll", "", "", "activateToolsFromMessage", 0,
                       toolCallsOf(result))}
            /\ UNCHANGED notification
    /\ UNCHANGED <<registryVars, panelVars, chatVars, now>>

(***************************************************************************)
(* activateToolsFromMessage resumes on the answer of mcp/connect-all,      *)
(* which it drops, and goes through the tool calls.  For the first server  *)
(* that offers a tool: when it is not connected the call of                *)
(* mcpTools.connectToServer, which MCPTools does not have, throws into the *)
(* catch block; when it is connected mcpTools.activateTool(toolName) is    *)
(* called with the tool name as its server name and rejects without a      *)
(* change (no server has the name of a tool here).                         *)
(***************************************************************************)
activateToolsConnected(r, result) ==
    LET throws == \E k \in DOMAIN r.value :
                     /\ Offering(config, r.value[k]) # {}
                     /\ \E e \in Offering(config, r.value[k]) :
                            /\ \A f \in Offering(config, r.value[k]) : e <= f
                            /\ Entries(config)[e].name \notin connectedServers
    IN  /\ r.kind = "connectAll"
        /\ r.cont = "activateToolsFromMessage"
        /\ lastOp' = Op("activateToolsConnected", <<result.outcome>>)
        /\ pending' = pending \ {r}
        /\ notification' = IF result.outcome = "throw" \/ throws
                           THEN Notice("activateError", "info")
                           ELSE Notice("activated", "info")
        /\ UNCHANGED <<registryVars, panelVars, chatVars, now>>

(***************************************************************************)
(* Chat turns and the tools buttons of their answers, on a registry that   *)
(* has loaded a file.                                                      *)
(***************************************************************************)
ToolAnswers ==
    {NullResult, NoSteps(Str(<<"ok">>)), ExampleAnswer,
     Answer(<<toolCall(Str(<<"list", "_", "dir">>))>>, Undefined)}

InitTools ==
    /\ config \in PanelConfigs
    /\ savedConfig = config
    /\ connectedServers \in {{}, {"fs"}}
    /\ toolsList = renderToolsList(config, connectedServers, <<>>)
    /\ activeTools = {}
    /\ panels = <<>>
    /\ pending = {}
    /\ chatHistory = <<>>
    /\ savedHistory = <<>>
    /\ isProcessing = FALSE
    /\ sendDisabled = FALSE
    /\ aiResult = NoResult
    /\ processed = NoResult
    /\ notification = NoNotice
    /\ now = 0
    /\ lastOp = Op("init", <<>>)

NextTools ==
    \/ \E m \in Messages : sendMessage(m, "ollama", "m", "")
    \/ \E r \in pending, res \in ConnectAllResults({"fs"}) : sendMessageConnected(r, res)
    \/ \E r \in pending, ok \in BOOLEAN, res \in ToolAnswers : sendMessageAnswered(r, ok, res)
    \/ \E i \in DOMAIN chatHistory : activateToolsFromMessage(i)
    \/ \E r \in pending, ok \in BOOLEAN, res \in ToolAnswers : activateToolsAnswered(r, ok, res)
    \/ \E r \in pending, res \in ConnectAllResults({"fs"}) : activateToolsConnected(r, res)

SpecTools == InitTools /\ [][NextTools]_vars

(***************************************************************************)
(* The calls of MCPClientAPI.request while time passes: a connect-one (of  *)
(* activateTool), the connect-all and the ai_process of a turn, and a      *)
(* call_tool.  request awaits fetch with no signal and no timer, so the    *)
(* only step that ends a request is its answer; the clock goes on whether  *)
(* or not the backend answers.                                             *)
(***************************************************************************)
NextWait ==
    \/ \E m \in Messages : sendMessage(m, "ollama", "m", "")
    \/ \E r \in pending, res \in ConnectAllResults({"fs"}) : sendMessageConnected(r, res)
    \/ \E r \in pending, ok \in BOOLEAN : sendMessageAnswered(r, ok, ExampleAnswer)
    \/ \E s \in ServerNames, t \in ToolNames : activateTool(s, t)
    \/ \E r \in pending, o \in ConnectOutcomes : connectResponse(r, o)
    \/ \E r \in pending : toolsResponse(r, <<"string">>)
    \/ \E command \in {"ls"} : executeCommand(command)
    \/ \E r \in pending, o \in Outcomes : callToolResponse(r, o)
    \/ Tick

SpecWait == InitPanels /\ [][NextWait]_vars

LiveWait == SpecWait /\ WF_vars(Tick)

(***************************************************************************)
(* MCPClientApp.loadChatHistory: this.chatHistory becomes the parsed       *)
(* array, and forEach calls addMessageToChat for each of the entries the   *)
(* array had when the loop started, which pushes to the same array.        *)
(***************************************************************************)
RECURSIVE replayMessages(_, _)
replayMessages(history, entries) ==
    IF entries = <<>> THEN history
    ELSE replayMessages(addMessageToChat(history, Head(entries).role,
                                         Str(Head(entries).content), <<>>),
                        Tail(entries))

loadChatHistory(saved) == replayMessages(saved, saved)

(***************************************************************************)
(* The page is loaded again: the constructors and init of MCPTools and of  *)
(* MCPClientApp run on what localStorage holds; the requests of the page   *)
(* before are gone with it.                                                *)
(***************************************************************************)
reloadPage ==
    /\ 2 * Len(savedHistory) <= MaxHistory
    /\ lastOp' = Op("reloadPage", <<>>)
    /\ config' = NoConfig
    /\ connectedServers' = {}
    /\ toolsList' = <<>>
    /\ activeTools' = {}
    /\ panels' = <<>>
    /\ pending' = {Req(0, "fetchConfig", "", "", "loadSavedConfig", 0, <<>>)}
    /\ chatHistory' = loadChatHistory(savedHistory)
    /\ isProcessing' = FALSE
    /\ sendDisabled' = FALSE
    /\ aiResult' = NoResult
    /\ processed' = NoResult
    /\ notification' = NoNotice
    /\ UNCHANGED <<savedConfig, savedHistory, now>>

(***************************************************************************)
(* Chat turns and reloads of the page.                                     *)
(***************************************************************************)
NextReload ==
    \/ NextChat
    \/ reloadPage

SpecReload == Init /\ [][NextReload]_vars

(***************************************************************************)
(* MCPClientApp.clearChat: the Clear button; confirmed is the answer of    *)
(* the confirm dialog.  It does not look at isProcessing.                  *)
(***************************************************************************)
clearChat(confirmed) ==
    /\ lastOp' = Op("clearChat", <<IF confirmed THEN "confirmed" ELSE "cancelled">>)
    /\ IF confirmed
       THEN /\ chatHistory' = <<>>
            /\ savedHistory' = saveChatHistory(chatHistory')
       ELSE UNCHANGED <<chatHistory, savedHistory>>
    /\ UNCHANGED <<registryVars, panelVars, pending, isProcessing, sendDisabled, aiResult,
                   processed, notification, now>>

(***************************************************************************)
(* Chat turns and the Clear button.                                        *)
(***************************************************************************)
NextClear ==
    \/ NextChat
    \/ \E confirmed \in BOOLEAN : clearChat(confirmed)

SpecClear == Init /\ [][NextClear]_vars

(***************************************************************************)
(* processAiWithToolsResponse on every answer of at most MaxSteps steps,   *)
(* and on one tool_call of every identifier of at most MaxIdLen tokens.    *)
(***************************************************************************)
IdTokens == {"fs", "dir", "_"}
Identifiers == SeqUpTo(IdTokens, MaxIdLen) \ {<<>>}

StepKinds ==
    {toolCall(Str(fs_list_dir)), toolCall(Str(<<"list", "_", "dir">>)), toolCall(Str(<<"ping">>)),
     toolCall(Str(<<"fs", "_", "ping">>)),
     toolCall(Undefined), toolResult(Str(<<"[a.txt, b.txt]">>)),
     response(Str(<<"Here are your files.">>))}

StepAnswers ==
    {Answer(st, Str(<<"fallback">>)) : st \in SeqUpTo(StepKinds, MaxSteps)}
        \cup {Answer(<<toolCall(Str(id))>>, Undefined) : id \in Identifiers}
        \cup ChatAnswers

\* The registry the answers are processed with: none, or a server fs that
\* offers the tool ping and is connected.
StepConfigs ==
    {NoConfig,
     JSONparse([kind |-> "object",
                servers |-> <<[name |-> "fs", disabled |-> FALSE, tools |-> <<"ping">>]>>])}

InitSteps ==
    /\ config \in StepConfigs
    /\ savedConfig = config
    /\ connectedServers = IF config = NoConfig THEN {} ELSE {"fs"}
    /\ toolsList = renderToolsList(config, connectedServers, <<>>)
    /\ activeTools = {}
    /\ panels = <<>>
    /\ pending = {}
    /\ chatHistory = <<>>
    /\ savedHistory = <<>>
    /\ isProcessing = FALSE
    /\ sendDisabled = FALSE
    /\ aiResult \in StepAnswers
    /\ processed = NoResult
    /\ notification = NoNotice
    /\ now = 0
    /\ lastOp = Op("init", <<>>)

\* The call of processAiWithToolsResponse on the answer in hand.
processAnswer ==
    /\ lastOp.op = "init"
    /\ processed' = processAiWithToolsResponse(aiResult)
    /\ lastOp' = Op("processAiWithToolsResponse", <<>>)
    /\ UNCHANGED <<registryVars, panelVars, pending, chatHistory, savedHistory, isProcessing,
                   sendDisabled, aiResult, notification, now>>

NextSteps == processAnswer

SpecSteps == InitSteps /\ [][NextSteps]_vars

(***************************************************************************)
(* Properties.                                                             *)
(***************************************************************************)
Disabled(cfg, s) == HasServer(cfg, s) /\ ServerConfig(cfg, s).disabled
Enabled(cfg, s) == HasServer(cfg, s) /\ ~ServerConfig(cfg, s).disabled

\* C4: a toggleServerStatus that disables a connected server removes it from
\* the connected set in that step and issues no request; one that re-enables a
\* server sets disabled to false, issues no request and does not connect it: a
\* server that was out of the connected set stays out.
C4_DisableDisconnects ==
    [][\A s \in ServerNames :
          (lastOp'.op = "toggleServerStatus" /\ toggleServerStatus(s)) =>
              /\ (Enabled(config, s) /\ s \in connectedServers) =>
                     /\ Disabled(config', s)
                     /\ s \notin connectedServers'
                     /\ pending' = pending
              /\ Disabled(config, s) =>
                     /\ Enabled(config', s)
                     /\ s \notin connectedServers => s \notin connectedServers'
                     /\ pending' = pending]_vars

\* A connected server has just been disabled, and is out of the connected set.
C4_Witness ==
    /\ lastOp.op = "toggleServerStatus"
    /\ lastOp.arg[2] /\ lastOp.arg[3]
    /\ lastOp.arg[1] \notin connectedServers
    /\ Disabled(config, lastOp.arg[1])

\* C6 (as claimed): loading a file whose mcpServers is missing, is not an
\* object (null, a string, an array) or is empty fails and leaves the
\* configuration in memory and the persisted one as they were.
MalformedFile(f) ==
    \/ f.kind \in {"null", "noServers", "serversNull", "serversString", "array"}
    \/ f.kind = "object" /\ f.servers = <<>>

C6_MalformedRejected ==
    [][\A f \in ConfigFiles :
          (lastOp'.op = "loadConfigFromFile" /\ handleConfigFile(f) /\ MalformedFile(f)) =>
              /\ lastOp'.arg[1] = FALSE
              /\ config' = config
              /\ savedConfig' = savedConfig]_vars

\* C7: when connectToMcpServers is answered with the result the previous run of
\* it was answered with, nothing else having run in between, the connected set
\* stays what the previous run left.
C7_ConnectAllIdempotent ==
    [][\A r \in pending, res \in ConnectAllResults(ServerNames) :
          (/\ lastOp'.op = "connectAllResponse"
           /\ connectAllResponse(r, res)
           /\ InSuccession(res)) =>
              connectedServers' = connectedServers]_vars

\* A second run in succession has been answered with the same, non-empty list.
C7_Witness ==
    /\ lastOp.op = "connectAllResponse"
    /\ lastOp.arg[2]
    /\ lastOp.arg[1].outcome = "success"
    /\ lastOp.arg[1].servers # {}
    /\ lastOp.arg[1].servers \subseteq connectedServers

\* C10 (as claimed): after a successful load of an object with at least one
\* server, the rendered listing is the declared servers, each once, in the
\* order the file declares them.
RenderedNames(dom) == [i \in DOMAIN dom |-> dom[i].server]

C10_DeclarationOrder ==
    [][\A f \in ObjectFiles :
          (/\ lastOp'.op = "loadConfigFromFile"
           /\ handleConfigFile(f)
           /\ f.servers # <<>>
           /\ lastOp'.arg[1] = TRUE) =>
              RenderedNames(toolsList') = FirstOccurrences(f.servers)]_vars

\* C5 (as claimed): every call_tool request is issued for a server that is in
\* the connected set when it is issued, whichever operation issues it.
C5_CallsOnlyConnected ==
    [][\A r \in Issued("callTool") : r.server \in connectedServers]_vars

\* C8 (as claimed): executing a tool whose field is declared integer with the
\* value "abc" shows an error and issues no call_tool request.
C8_InvalidNumberRejected ==
    [][\A i \in DOMAIN panels, checked \in BOOLEAN :
          (/\ lastOp'.op = "executeTool"
           /\ executeTool(i, <<"abc">>, checked)
           /\ panels[ElementById(panels, PanelId(panels[i]))].fields = <<"integer">>) =>
              /\ Issued("callTool") = {}
              /\ panels'[ElementById(panels, PanelId(panels[i]))].result = "error"]_vars

\* C1 (as claimed): the usedTools of a processed answer never holds two
\* entries of the same server and name, also when the steps repeat a
\* server_toolname identifier.
C1_NoDuplicateTools ==
    processed # NoResult =>
        \A i, j \in DOMAIN processed.usedTools :
            (/\ processed.usedTools[i].server = processed.usedTools[j].server
             /\ processed.usedTools[i].name = processed.usedTools[j].name) => i = j

\* C2: a sendMessage while a turn is processing shows the warning, issues no
\* request and leaves the transcript, in memory and persisted, as it was; at
\* most one turn is in flight at any time.
C2_BusyRejected ==
    /\ [](Cardinality(Turns) <= 1)
    /\ [][\A m \in Messages, p \in Providers, mo \in Models, k \in ApiKeys :
             (lastOp'.op = "sendMessage" /\ sendMessage(m, p, mo, k) /\ isProcessing) =>
                 /\ notification' = Notice("stillProcessing", "warning")
                 /\ pending' = pending
                 /\ chatHistory' = chatHistory
                 /\ savedHistory' = savedHistory
                 /\ isProcessing']_vars

\* A message has just been rejected while a turn is in flight.
C2_Witness ==
    /\ lastOp = Op("sendMessage", <<"busy">>)
    /\ isProcessing
    /\ Cardinality(Turns) = 1
    /\ notification = Notice("stillProcessing", "warning")

\* C3: an accepted turn appends the user's entry when it starts, nothing while
\* it is in flight, and exactly one assistant entry in the step that ends it,
\* on the success path and on the error path alike; and, its requests
\* settling, every accepted turn ends.
IsAppend(history, after, role) ==
    /\ Len(after) = Len(history) + 1
    /\ SubSeq(after, 1, Len(history)) = history
    /\ after[Len(after)].role = role

FirstUnderscore(id) == CHOOSE k \in DOMAIN id : id[k] = "_" /\ \A j \in 1..(k - 1) : id[j] # "_"
BeforeFirst(id) == SubSeq(id, 1, FirstUnderscore(id) - 1)
AfterFirst(id) == SubSeq(id, FirstUnderscore(id) + 1, Len(id))

RecordedFrom(u, id) ==
    IF \E k \in DOMAIN id : id[k] = "_"
    THEN /\ u.server = BeforeFirst(id)
         /\ u.name = AfterFirst(id)
         /\ u.server \o <<"_">> \o u.name = id
    ELSE u.server = <<>> /\ u.name = id

ToolCalls(answer) ==
    {answer.steps[i].tool.str : i \in {k \in DOMAIN answer.steps :
                                          /\ answer.steps[k].type = "tool_call"
                                          /\ answer.steps[k].tool.type = "string"}}

C9_ServerNameSplit ==
    (processed # NoResult /\ ~processed.throws) =>
        /\ \A i \in DOMAIN processed.usedTools :
               \E id \in ToolCalls(aiResult) : RecordedFrom(processed.usedTools[i], id)
        /\ (Len(aiResult.steps) = 1 /\ ToolCalls(aiResult) # {}) =>
               /\ Len(processed.usedTools) = 1
               /\ \A id \in ToolCalls(aiResult) : RecordedFrom(processed.usedTools[1], id)
        /\ aiResult = ExampleAnswer =>
               /\ \E i \in DOMAIN processed.processedResponse.str :
                      processed.processedResponse.str[i] = "[a.txt, b.txt]"
               /\ processed.processedResponse.str[Len(processed.processedResponse.str)]
                      = "Here are your files."
               /\ processed.usedTools = <<[name |-> <<"list", "_", "dir">>, server |-> <<"fs">>]>>

\* The example answer has been processed.
C9_Witness ==
    /\ lastOp.op = "processAiWithToolsResponse"
    /\ aiResult = ExampleAnswer
    /\ processed.usedTools # <<>>

\* C12 (as claimed): a server is in the connected set only if the most recent
\* connection attempt to it succeeded and no disconnect or disable of it has
\* happened since: when the last attempt to a server that has been answered
\* failed, and when a server has just been disconnected or disabled, the
\* server is out of the connected set.
ConnectsPending(s) == {r \in pending : r.kind = "connect" /\ r.server = s}

C12_MemberOnlyAfterSuccess ==
    [][/\ \A r \in pending, o \in ConnectOutcomes :
             (/\ lastOp'.op = "connectResponse"
              /\ connectResponse(r, o)
              /\ o # "success"
              /\ ConnectsPending(r.server) = {r}) => r.server \notin connectedServers'
       /\ \A s \in ServerNames :
             (/\ lastOp'.op = "toggleServerStatus"
              /\ toggleServerStatus(s)
              /\ Disabled(config', s)) => s \notin connectedServers']_vars

\* C13 (as claimed): no server whose configuration has disabled = true is in
\* the connected set, whatever names the backend returns to connect-all.
C13_NoDisabledConnected ==
    \A s \in connectedServers : ~Disabled(config, s)

\* C14: the answer of a failed connect-one request (success = false, or the
\* request threw) leaves the connected set as it was and issues no further
\* connect request; the call had issued exactly one.
C14_FailedConnectNoRetry ==
    [][/\ \A r \in pending, o \in ConnectOutcomes :
             (/\ lastOp'.op = "connectResponse"
              /\ connectResponse(r, o)
              /\ o # "success") =>
                 /\ connectedServers' = connectedServers
                 /\ Issued("connect") = {}
       /\ \A i \in DOMAIN toolsList :
             (/\ lastOp'.op = "toggleServerConnection"
              /\ clickConnectButton(i)
              /\ lastOp'.arg[2]) => Cardinality(Issued("connect")) <= 1]_vars

\* A connect-one request has just failed and its server is not connected.
C14_Witness ==
    /\ lastOp.op = "connectResponse"
    /\ lastOp.arg[2] \in {"failure", "throw"}
    /\ lastOp.arg[1] \notin connectedServers
    /\ ConnectsPending(lastOp.arg[1]) = {}

Returned(res) == IF res.outcome = "success" /\ res.hasServers THEN res.servers ELSE {}

C15_ConnectAllMerged ==
    [][\A r \in pending, res \in ConnectAllResults(ServerNames) :
          /\ (lastOp'.op = "connectAllResponse" /\ connectAllResponse(r, res)) =>
                 Returned(res) \subseteq connectedServers'
          /\ (lastOp'.op = "sendMessageConnected" /\ sendMessageConnected(r, res)) =>
                 Returned(res) \subseteq connectedServers']_vars

\* C16 (as claimed): activateTool for a server that is disabled fails: it
\* issues no request, leaves no activateTool call waiting to register a panel
\* and leaves the connected set and the panels as they were.
C16_DisabledOpenFails ==
    [][\A s \in ServerNames, t \in ToolNames :
          (/\ lastOp'.op = "activateTool"
           /\ activateTool(s, t)
           /\ Disabled(config, s)) =>
              /\ pending' = pending
              /\ connectedServers' = connectedServers
              /\ panels' = panels
              /\ activeTools' = activeTools]_vars

\* C17 (as claimed): activateTool for an enabled server that is not connected
\* issues exactly one connect request and nothing else; when the answer does
\* not leave the server in the connected set, no panel is opened; and a panel
\* is registered only when its server is in the connected set.
C17_OpenConnectsOnce ==
    [][/\ \A s \in ServerNames, t \in ToolNames :
             (/\ lastOp'.op = "activateTool"
              /\ activateTool(s, t)
              /\ Enabled(config, s)
              /\ s \notin connectedServers) =>
                 /\ Cardinality(Issued("connect")) = 1
                 /\ pending' \ pending = Issued("connect")
       /\ \A r \in Opening, o \in ConnectOutcomes :
             (/\ lastOp'.op = "connectResponse"
              /\ connectResponse(r, o)
              /\ r.server \notin connectedServers') =>
                 /\ Opening' = Opening \ {r}
                 /\ panelVars' = panelVars
       /\ \A r \in Opening, ft \in FieldTypes :
             (lastOp'.op = "activateToolDone" /\ toolsResponse(r, <<ft>>)) =>
                 r.server \in connectedServers']_vars

\* The conversion of the k-th field of a form holding texts throws.
Throws(fields, texts, checked, k) ==
    coerceInput(fields[k], inputValue(fields[k], texts[k]), checked).throws

\* C18: an Execute click on a form in which the conversion of some field
\* throws issues no call_tool request and shows the error; every call_tool
\* request an Execute click issues carries the converted value of every
\* field of the form, in order.
C18_CoercionAborts ==
    [][\A i \in DOMAIN panels, texts \in Texts, checked \in BOOLEAN :
          (/\ lastOp'.op = "executeTool"
           /\ executeTool(i, texts, checked)) =>
              LET e == ElementById(panels, PanelId(panels[i]))
                  fields == panels[e].fields
              IN  /\ (\E k \in DOMAIN fields : Throws(fields, texts, checked, k)) =>
                         /\ Issued("callTool") = {}
                         /\ serverIsConnected(connectedServers, panels[i].server) =>
                                panels'[e].result = "error"
                  /\ \A r \in Issued("callTool") :
                         /\ Len(r.value) = Len(fields)
                         /\ \A k \in DOMAIN fields :
                                r.value[k] = coerceInput(fields[k],
                                    inputValue(fields[k], texts[k]), checked).value]_vars

\* An Execute click on a form of a string field and an object field whose
\* text is no JSON has shown the error, with no request in flight.
C18_Witness ==
    /\ lastOp.op = "executeTool"
    /\ lastOp.arg = <<(<<"string", "object">>), (<<"12", "abc">>)>>
    /\ \E i \in DOMAIN panels : panels[i].result = "error"
    /\ pending = {}

\* C19: a Close click removes the panel element and leaves no entry of its
\* toolId in the registry of active panels; the same Close listener run
\* again on the removed panel changes neither the panels, the registry,
\* the requests in flight nor the notification.
C19_CloseIdempotent ==
    [][/\ \A i \in DOMAIN panels :
             (/\ lastOp'.op = "closePanel"
              /\ closePanel(i)) =>
                 /\ Len(panels') = Len(panels) - 1
                 /\ \A a \in activeTools' : a.id # PanelId(panels[i])
       /\ (/\ lastOp'.op = "closeAgain"
           /\ lastOp.op \in {"closePanel", "closeAgain"}) =>
              /\ \A a \in activeTools' : a.id # lastOp.arg[1]
              /\ UNCHANGED <<panels, activeTools, pending, notification>>]_vars

\* A panel that was registered has been closed, and closed again.
C19_Witness ==
    /\ lastOp.op = "closeAgain"
    /\ \A i \in DOMAIN panels : PanelId(panels[i]) # lastOp.arg[1]
    /\ \A a \in activeTools : a.id # lastOp.arg[1]

\* C20 (as claimed): a toggleServerConnection(s, true) call for a server of
\* the configuration that is in the connected set issues no connect
\* request and changes nothing; for one that is not, it issues exactly one.
C20_ConnectedConnectIsNoOp ==
    [][\A s \in ServerNames :
          (/\ lastOp'.op = "toggleServerConnection"
           /\ CanToggleConnection(s)
           /\ toggleServerConnection(s, TRUE)) =>
              IF s \in connectedServers
              THEN /\ Issued("connect") = {}
                   /\ UNCHANGED <<connectedServers, toolsList>>
              ELSE Cardinality(Issued("connect")) = 1]_vars

\* The connected servers of the configuration whose tool list holds name.
Owners(name) ==
    {s \in connectedServers :
        /\ HasServer(config, s)
        /\ \E t \in Range(ServerConfig(config, s).tools) : <<t>> = name}

\* The tool_call steps of an answer whose identifier is a string.
CallSteps(answer) ==
    {k \in DOMAIN answer.steps : /\ answer.steps[k].type = "tool_call"
                                 /\ answer.steps[k].tool.type = "string"}

\* C21 (as claimed): when a tool_call step names a tool by a bare name (no
\* underscore) that a connected server offers, the usedTools entry of that
\* name records a connected server whose tool list holds the name.
C21_BareNameLookup ==
    (processed # NoResult /\ ~processed.throws /\ aiResult.hasSteps) =>
        \A id \in ToolCalls(aiResult) :
            (~includes(id, "_") /\ Owners(id) # {}) =>
                \A i \in DOMAIN processed.usedTools :
                    processed.usedTools[i].name = id =>
                        \E s \in Owners(id) : processed.usedTools[i].server = <<s>>

\* The entry the claims expect for an identifier.
ExpectedEntry(id) ==
    IF includes(id, "_") THEN [name |-> AfterFirst(id), server |-> BeforeFirst(id)]
    ELSE [name |-> id, server |-> <<>>]

\* C22 (as claimed): every distinct identifier of the tool_call steps of an
\* answer has exactly one entry in usedTools: the entry of an identifier is
\* there, also for a bare name that equals the name part of an earlier
\* server_toolname identifier, and it is there once.
C22_EachToolOnce ==
    (processed # NoResult /\ ~processed.throws /\ aiResult.hasSteps) =>
        \A id \in ToolCalls(aiResult) :
            Cardinality({i \in DOMAIN processed.usedTools :
                            processed.usedTools[i] = ExpectedEntry(id)}) = 1

\* The text a step adds to the answer, as the claims describe it.
Rendering23(step) ==
    CASE step.type = "response" -> step.content.str
      [] step.type = "tool_result" -> <<"\nresult: ">> \o step.content.str \o <<"\n\n">>
      [] step.type = "tool_call" -> <<"\n\n[tool: ">> \o step.tool.str \o <<"]\n">>
      [] OTHER -> <<>>

RECURSIVE InOrder(_)
InOrder(steps) == IF steps = <<>> THEN <<>> ELSE Rendering23(Head(steps)) \o InOrder(Tail(steps))

\* C23: the content composed from an answer with steps is the renderings of
\* its steps joined in the order of the steps (when that text is not empty):
\* the content of a response step as it is, the content of a tool_result
\* step between the result label and the closing blank line.
C23_StepsInOrder ==
    (/\ processed # NoResult
     /\ ~processed.throws
     /\ aiResult.hasSteps
     /\ InOrder(aiResult.steps) # <<>>) =>
        processed.processedResponse = Str(InOrder(aiResult.steps))

\* An answer of a response step, a tool_result step and a tool_call step,
\* in this order, has been processed.
C23_Witness ==
    /\ lastOp.op = "processAiWithToolsResponse"
    /\ ~processed.throws
    /\ aiResult.hasSteps
    /\ Len(aiResult.steps) = 3
    /\ aiResult.steps[1].type = "response"
    /\ aiResult.steps[2].type = "tool_result"
    /\ aiResult.steps[3].type = "tool_call"
    /\ processed.processedResponse.str[1] = "Here are your files."

\* part occurs in text.
Contains(text, part) ==
    \E i \in 1..(Len(text) - Len(part) + 1) : SubSeq(text, i, i + Len(part) - 1) = part

\* C24 (as claimed): when the answer of a turn has steps, the content of
\* every response step is in the assistant entry the turn commits, also
\* when another step of the answer is a tool_call that cannot be processed.
C24_StepsIsolated ==
    [][\A r \in pending, res \in ChatAnswers \ {NullResult} :
          (/\ lastOp'.op = "sendMessageAnswered"
           /\ sendMessageAnswered(r, TRUE, res)
           /\ res.hasSteps) =>
              \A k \in DOMAIN res.steps :
                  (res.steps[k].type = "response" /\ res.steps[k].content.type = "string") =>
                      Contains(chatHistory'[Len(chatHistory')].content,
                               res.steps[k].content.str)]_vars

\* C25: when the ai_process request of a turn fails, the turn appends one
\* assistant entry whose content is the error message and whose usedTools
\* are empty, persists the transcript, and processes no answer.
C25_FailedRequestEntry ==
    [][\A r \in pending, res \in ChatAnswers :
          (/\ lastOp'.op = "sendMessageAnswered"
           /\ sendMessageAnswered(r, FALSE, res)) =>
              /\ Len(chatHistory') = Len(chatHistory) + 1
              /\ SubSeq(chatHistory', 1, Len(chatHistory)) = chatHistory
              /\ chatHistory'[Len(chatHistory')].role = "ai"
              /\ chatHistory'[Len(chatHistory')].content[1] = "Error: "
              /\ chatHistory'[Len(chatHistory')].usedTools = <<>>
              /\ savedHistory' = chatHistory'
              /\ UNCHANGED <<aiResult, processed>>]_vars

\* The ai_process request of a turn has failed and the error entry is the
\* last of the transcript.
C25_Witness ==
    /\ lastOp.op = "sendMessageAnswered"
    /\ lastOp.arg = <<"failed">>
    /\ chatHistory # <<>>
    /\ chatHistory[Len(chatHistory)].role = "ai"
    /\ chatHistory[Len(chatHistory)].content[1] = "Error: "
    /\ processed = NoResult

\* C26 (as claimed): the persisted chat history equals the chat history in
\* memory after every append, the append of the user entry at the start of
\* a turn included.
C26_PersistedAfterAppend == savedHistory = chatHistory

\* C27 (as claimed): after a load of the page the chat history in memory is
\* the persisted history, entry by entry, so that a save persists the same
\* entries again.
C27_LoadRoundTrip ==
    [][(lastOp'.op = "reloadPage" /\ reloadPage) =>
          /\ chatHistory' = savedHistory
          /\ saveChatHistory(chatHistory') = savedHistory]_vars

\* C28: toggleServerStatus of a name that is not in the configuration
\* changes neither the configuration, the persisted configuration, the
\* connected set nor the rendered list.
C28_UnknownNameNoChange ==
    [][\A s \in ServerNames :
          (/\ lastOp'.op = "toggleServerStatus"
           /\ toggleServerStatus(s)
           /\ ~HasServer(config, s)) =>
              UNCHANGED <<config, savedConfig, connectedServers, toolsList>>]_vars

\* toggleServerStatus has been called with a name that the loaded
\* configuration does not hold, while a server was connected.
C28_Witness ==
    /\ lastOp.op = "toggleServerStatus"
    /\ config # NoConfig
    /\ ~HasServer(config, lastOp.arg[1])
    /\ connectedServers # {}

\* The ai_process requests in flight.
Orchestrations == {r \in pending : r.kind = "aiProcess"}

\* C30 (as claimed): at most one ai_process request is in flight at any
\* time, whichever operation issued it.
C30_OneOrchestration == Cardinality(Orchestrations) <= 1

\* C29 (as claimed): every request in flight leaves the requests in flight
\* in the end, answered or treated as failed, also when the backend never
\* answers it.
C29_BoundedWait ==
    \A i \in 1..MaxPending :
        (\E r \in pending : r.id = i) ~> ~(\E r \in pending : r.id = i)

\* before is a prefix of after.
IsPrefix(before, after) ==
    /\ Len(before) <= Len(after)
    /\ SubSeq(after, 1, Len(before)) = before

\* C31 (as claimed): every step leaves the transcript it found as a prefix
\* of the transcript it leaves: no entry is removed, moved or rewritten.
C31_AppendOnly == [][IsPrefix(chatHistory, chatHistory')]_vars

\* The steps of sendMessage: its synchronous start and its two resumptions.
SendMessageSteps == {"sendMessage", "sendMessageConnected", "sendMessageAnswered"}

\* C32: a step of sendMessage, on any of its paths (rejected, suspended,
\* ended by an answer, ended in the catch block by a failed connect-all, a
\* failed ai_process or a throw of the answer's processing), removes no
\* server from the connected set and leaves the configuration as it was.
C32_TurnKeepsRegistry ==
    [][lastOp'.op \in SendMessageSteps
         => /\ connectedServers \subseteq connectedServers'
            /\ config' = config
            /\ savedConfig' = savedConfig]_vars

\* C32 witness: a turn has ended in the catch block on a failed connect-all
\* request while fs is connected and a configuration is loaded.
C32_Witness ==
    /\ lastOp = Op("sendMessageConnected", <<"throw">>)
    /\ connectedServers = {"fs"}
    /\ HasServer(config, "fs")
    /\ Len(chatHistory) >= 2
    /\ chatHistory[Len(chatHistory)].role = "ai"

\* C33 (as claimed): the panels open at the same time have identifiers
\* that differ from one another, those of one (server, tool) pair too, and
\* each has its own entry in the registry of active tools.
C33_DistinctPanelIds ==
    /\ \A i, j \in DOMAIN panels : i # j => PanelId(panels[i]) # PanelId(panels[j])
    /\ Cardinality(activeTools) = Len(panels)

\* The conditions under which a sendMessage is to be turned away: a turn in
\* flight, an empty message, no provider or no model, no API key for a
\* provider other than Ollama.
ToBeRejected(message, provider, model, apiKey) ==
    \/ isProcessing
    \/ message = <<>>
    \/ provider = ""
    \/ model = ""
    \/ provider # "ollama" /\ apiKey = ""

\* C34: a sendMessage that one of its guards turns away issues no request
\* and leaves the transcript, its saved copy, the processing flag, the send
\* button and the connected set as they were.
C34_RejectedChangesNothing ==
    [][\A m \in Messages, p \in Providers, mo \in Models, k \in ApiKeys :
          (/\ lastOp'.op = "sendMessage"
           /\ sendMessage(m, p, mo, k)
           /\ ToBeRejected(m, p, mo, k))
          => /\ pending' = pending
             /\ UNCHANGED <<chatHistory, savedHistory, isProcessing, sendDisabled,
                            connectedServers>>]_vars

\* C34 witness: after a finished turn, a sendMessage has been turned away
\* for its missing API key.
C34_Witness ==
    /\ lastOp = Op("sendMessage", <<"noKey">>)
    /\ notification = Notice("enterApiKey", "error")
    /\ Len(chatHistory) >= 2
    /\ ~isProcessing
    /\ Turns = {}

\* C35 (as claimed): every connected server is a server of the
\* configuration in use, also after a load of a file that no longer has
\* it and whatever names a connect-all answer carries.
C35_ConnectedAreConfigured == \A s \in connectedServers : HasServer(config, s)

\* C37 (as claimed): the startup fetch of loadSavedConfig that completes
\* right after a successful loadConfigFromFile leaves the configuration
\* the user has loaded in place.
C37_StartupFetchKeepsLoaded ==
    [][(/\ lastOp.op = "loadConfigFromFile"
        /\ lastOp.arg = <<TRUE>>
        /\ lastOp'.op = "loadSavedConfig")
       => config' = config]_vars

\* C36: when the connect-all request of a turn fails (the request throws),
\* the turn ends there: no ai_process request is issued and none of the
\* turn is left pending, one assistant entry with the error message is
\* appended and persisted, and the flags are reset.  (A connect-all request
\* that is answered, be it with success false, is not a failed request.)
C36_FailedConnectAllEndsTurn ==
    [][\A r \in pending, res \in ConnectAllResults(ServerNames) :
          (/\ lastOp'.op = "sendMessageConnected"
           /\ res.outcome = "throw"
           /\ sendMessageConnected(r, res)) =>
              /\ Issued("aiProcess") = {}
              /\ \A q \in pending' : ~(q.cont = "sendMessage" /\ q.id = r.id)
              /\ Len(chatHistory') = Len(chatHistory) + 1
              /\ IsPrefix(chatHistory, chatHistory')
              /\ chatHistory'[Len(chatHistory')].role = "ai"
              /\ chatHistory'[Len(chatHistory')].content[1] = "Error: "
              /\ savedHistory' = chatHistory'
              /\ ~isProcessing'
              /\ UNCHANGED <<aiResult, processed>>]_vars

\* C36 witness: a turn has ended on its failed connect-all request: the
\* transcript ends with the user entry and the error entry, no request of
\* a turn is pending and no answer was ever processed.
C36_Witness ==
    /\ lastOp = Op("sendMessageConnected", <<"throw">>)
    /\ Len(chatHistory) = 2
    /\ chatHistory[1].role = "user"
    /\ chatHistory[2].role = "ai"
    /\ chatHistory[2].content[1] = "Error: "
    /\ Turns = {}
    /\ aiResult = NoResult

\* The steps of the answer are absent, none, or all response steps with the
\* content '': the loop over them leaves formattedResponse ''.
RendersNothing(res) ==
    \/ ~res.hasSteps
    \/ \A k \in DOMAIN res.steps : /\ res.steps[k].type = "response"
                                    /\ res.steps[k].content = Str(<<>>)

\* result.response || 'No response received', as a text.
ResponseOrDefault(res) ==
    IF res.response.type = "undefined" \/ res.response.str = <<>>
    THEN <<"No response received">>
    ELSE res.response.str

\* The step ended a turn with an answer entry, not in the catch block.
TurnSucceeded ==
    /\ lastOp' = Op("sendMessageAnswered", <<"answered">>)
    /\ Len(chatHistory') = Len(chatHistory) + 1
    /\ LET content == chatHistory'[Len(chatHistory')].content
       IN  content = <<>> \/ content[1] # "Error: "

\* C38: the assistant entry of a successful turn never has the content '':
\* when the steps are absent, empty or render to '', the content is
\* result.response, or 'No response received' when that is missing or '',
\* and with the steps absent usedTools is empty.
C38_AnswerNeverEmpty ==
    [][\A r \in pending, res \in ChatAnswers :
          (/\ lastOp'.op = "sendMessageAnswered"
           /\ sendMessageAnswered(r, TRUE, res)
           /\ TurnSucceeded) =>
              LET entry == chatHistory'[Len(chatHistory')] IN
              /\ entry.role = "ai"
              /\ entry.content # <<>>
              /\ RendersNothing(res) => entry.content = ResponseOrDefault(res)
              /\ ~res.hasSteps => entry.usedTools = <<>>]_vars

\* C38 witness: a turn has ended with the answer whose only step renders
\* to '': its entry carries result.response.
C38_Witness ==
    /\ lastOp = Op("sendMessageAnswered", <<"answered">>)
    /\ aiResult = SilentAnswer
    /\ chatHistory # <<>>
    /\ chatHistory[Len(chatHistory)] = [role |-> "ai", content |-> <<"ok">>, usedTools |-> <<>>]

\* C39 (as claimed): when activateToolsFromMessage has its connect-all
\* answered, then for every tool call of the answer whose tool an enabled
\* server lists, the opening of a panel bound to that server and tool is
\* under way: a connect request of activateTool for a server that is not
\* connected, the schema request of activateTool for one that is.
C39_ListedToolsActivated ==
    [][\A r \in pending :
          (/\ lastOp'.op = "activateToolsConnected"
           /\ lastOp'.arg # <<"throw">>
           /\ r.kind = "connectAll"
           /\ r.cont = "activateToolsFromMessage"
           /\ r \notin pending') =>
              \A k \in DOMAIN r.value :
                 Offering(config, r.value[k]) # {} =>
                    \E e \in Offering(config, r.value[k]), q \in pending' \ pending :
                       /\ q.cont = "activateTool"
                       /\ q.server = Entries(config)[e].name
                       /\ q.tool = r.value[k]
                       /\ q.kind = IF q.server \in connectedServers THEN "getTools"
                                   ELSE "connect"]_vars

====
